---- MODULE Spec2Model ----
(***************************************************************************)
(* Model of the Domo embed handlers of domo-embed-webflow: the five        *)
(* variants of the request handler (functions/embed-domo-app.js, the two   *)
(* Astro API routes kept as unnamed/part_000 and unnamed/part_001,         *)
(* src/pages/api/embed-domo-app.js and the handler listed in README.md).   *)
(* One invocation runs from the incoming request to its response; every    *)
(* await of the handler (fetch, text(), json()) is one step.               *)
(***************************************************************************)
EXTENDS Integers, Sequences, FiniteSets, TLC

VARIABLES
  variant,            \* which handler file serves the request
  method,             \* request.method
  runtimeEnv,         \* context.env / locals.runtime?.env
  processEnv,         \* process.env
  pc,                 \* position of the invocation
  cfg,                \* the destructured configuration
  tokenResponse,      \* Response of the token fetch
  tokenData,          \* parsed JSON of the token response
  embedTokenResponse, \* Response of the embed-authorization fetch
  embedTokenData,     \* parsed JSON of the embed-authorization response
  error,              \* message of the exception the catch block caught
  console,            \* the values written by console.log / console.error
  calls,              \* outbound fetch calls issued so far, in order
  responses,          \* Responses returned to the platform, in order
  previous,           \* what the earlier invocations of the handler returned
  suspended           \* the locals of a concurrent invocation that is not running

vars == <<variant, method, runtimeEnv, processEnv, pc, cfg, tokenResponse,
          tokenData, embedTokenResponse, embedTokenData, error, console, calls,
          responses, previous, suspended>>

----------------------------------------------------------------------------
(* Bounds of the model *)

\* how many environment keys, over both sources, differ from a complete setup
MaxUnset == 1
\* how many distinct token values the upstream may hand out
NumTokens == 2
\* how many times in a row the platform invokes the handler
MaxInvocations == 2

----------------------------------------------------------------------------
(* Values *)

Variants == {"functions", "part_000", "part_001", "pages_api", "readme"}
Methods == {"GET", "POST", "OPTIONS"}

\* the value of a JavaScript variable that was never set; a template literal
\* renders it as the text "undefined"
Undef == "undefined"

Falsy(v) == v \in {Undef, ""}

RequiredKeys == {"DOMO_CLIENT_ID", "DOMO_CLIENT_SECRET", "DOMO_BASE_URL", "DOMO_EMBED_ID"}
Keys == RequiredKeys \cup {"DOMO_EMBED_TYPE"}

\* what a complete environment source holds; the two sources hold different
\* values so that the source of a resolved value can be told
FullEnv(src) ==
  IF src = "runtime"
    THEN [DOMO_CLIENT_ID |-> "rt-client-01", DOMO_CLIENT_SECRET |-> "rt-secret",
          DOMO_BASE_URL |-> "https://rt.domo.com", DOMO_EMBED_ID |-> "RTID",
          DOMO_EMBED_TYPE |-> Undef]
    ELSE [DOMO_CLIENT_ID |-> "pe-id", DOMO_CLIENT_SECRET |-> "pe-secret",
          DOMO_BASE_URL |-> "https://pe.domo.com", DOMO_EMBED_ID |-> "PEID",
          DOMO_EMBED_TYPE |-> Undef]

\* the other values a key may hold: unset or empty for a required key, a
\* kind for the optional embed type
OtherValues(k) == IF k = "DOMO_EMBED_TYPE" THEN {"page", "card"} ELSE {Undef, ""}

Unset(src, e) == Cardinality({k \in Keys : e[k] # FullEnv(src)[k]})

EnvVars(src) ==
  {e \in [Keys -> {Undef, "", "page", "card"} \cup {FullEnv(src)[k] : k \in Keys}] :
     /\ \A k \in Keys : e[k] \in {FullEnv(src)[k]} \cup OtherValues(k)
     /\ Unset(src, e) <= MaxUnset}

NoVars == [k \in Keys |-> Undef]
AbsentEnv == [present |-> FALSE, vars |-> NoVars]

EnvSources(src) == {AbsentEnv} \cup {[present |-> TRUE, vars |-> e] : e \in EnvVars(src)}

EnvPairs ==
  {p \in EnvSources("runtime") \X EnvSources("process") :
     Unset("runtime", IF p[1].present THEN p[1].vars ELSE FullEnv("runtime"))
       + Unset("process", IF p[2].present THEN p[2].vars ELSE FullEnv("process")) <= MaxUnset}

AccessTokens == {"at" \o ToString(i) : i \in 1..NumTokens}
EmbedTokens == {"et" \o ToString(i) : i \in 1..NumTokens}

NoResponse == [arrived |-> FALSE, ok |-> FALSE, status |-> 0]
\* no body has been parsed yet
NoData == [parsed |-> FALSE, access_token |-> Undef]
NoEmbedData == [parsed |-> FALSE, authentication |-> Undef]

----------------------------------------------------------------------------
(* Initial state: a request has arrived at one of the handlers *)

\* no concurrent invocation has been started
NoInvocation ==
  [method |-> "GET", pc |-> "absent", cfg |-> NoVars, tokenResponse |-> NoResponse,
   tokenData |-> NoData, embedTokenResponse |-> NoResponse,
   embedTokenData |-> NoEmbedData, error |-> "", calls |-> <<>>, responses |-> <<>>]

Init ==
  /\ variant \in Variants
  /\ method \in Methods
  /\ \E p \in EnvPairs : runtimeEnv = p[1] /\ processEnv = p[2]
  /\ pc = "start"
  /\ cfg = NoVars
  /\ tokenResponse = NoResponse
  /\ tokenData = NoData
  /\ embedTokenResponse = NoResponse
  /\ embedTokenData = NoEmbedData
  /\ error = ""
  /\ console = {}
  /\ calls = <<>>
  /\ responses = <<>>
  /\ previous = <<>>
  /\ suspended = NoInvocation

----------------------------------------------------------------------------
(* Responses *)

corsHeaders ==
  [n \in {"Access-Control-Allow-Origin", "Access-Control-Allow-Methods",
          "Access-Control-Allow-Headers"} |->
     CASE n = "Access-Control-Allow-Origin" -> "*"
       [] n = "Access-Control-Allow-Methods" -> "GET, POST, OPTIONS"
       [] OTHER -> "Content-Type, Authorization"]

\* the object literal { ...a, ...b }: a later key overrides an earlier one
Spread(a, b) == b @@ a

ContentType(t) == [n \in {"Content-Type"} |-> t]

cacheHeaders ==
  [n \in {"Cache-Control", "Pragma", "Expires"} |->
     CASE n = "Cache-Control" -> "no-cache, no-store, must-revalidate"
       [] n = "Pragma" -> "no-cache"
       [] OTHER -> "0"]

\* A response body.  type: null, json or html; error: the JSON error field
\* (the page title of an error page); details: the message shown; embed:
\* none, iframe or form; src: the iframe src or the form action; field: the
\* value of the hidden form field; channels: every place the embed token is
\* written to; material: every configuration value, token and upstream text
\* that is interpolated anywhere into the body.
Body(type, title, details, embed, src, field, channels, material) ==
  [type |-> type, error |-> title, details |-> details, embed |-> embed,
   src |-> src, field |-> field, channels |-> channels, material |-> material]

NullBody == Body("null", "", "", "none", "", "", {}, {})

JsonError(title, details, material) ==
  Body("json", title, details, "none", "", "", {}, material)

\* generateErrorHtml: a page with a message, a reload button and a mailto link
generateErrorHtml(errorMessage, material) ==
  Body("html", "Unable to Load AI Use Case Chat", errorMessage, "none", "", "", {}, material)

NewResponse(body, status, headers) == [status |-> status, headers |-> headers, body |-> body]

\* a preflight response that also declares a content type
PreflightResponse_WithContentType ==
  NewResponse(NullBody, 200, Spread(corsHeaders, ContentType("application/json")))

\* the preflight response of the OPTIONS export / the OPTIONS branch
PreflightResponse == NewResponse(NullBody, 200, corsHeaders)

\* the configuration error reported as a client error
ConfigErrorResponse_400(v) ==
  NewResponse(
    JsonError("Server configuration error", "Missing required Domo credentials", {}),
    400, Spread(ContentType("application/json"), corsHeaders))

ConfigErrorResponse(v) ==
  NewResponse(
    JsonError("Server configuration error", "Missing required Domo credentials", {}),
    500,
    IF v = "functions" THEN Spread(corsHeaders, ContentType("application/json"))
                       ELSE Spread(ContentType("application/json"), corsHeaders))

\* a catch block that answers without the CORS headers
CatchResponse_NoCors(v, message, material) ==
  IF v = "functions"
    THEN NewResponse(generateErrorHtml(message, material), 500, ContentType("text/html"))
    ELSE NewResponse(JsonError("Internal server error", message, material), 500,
                     ContentType("application/json"))

\* the catch block of the handler: error is the caught exception, of which
\* message is the text and material the strings the message quotes
CatchResponse(v, message, material) ==
  IF v = "functions"
    THEN NewResponse(generateErrorHtml(message, material), 500,
                     Spread(corsHeaders, ContentType("text/html")))
    ELSE NewResponse(JsonError("Internal server error", message, material), 500,
                     Spread(ContentType("application/json"), corsHeaders))

----------------------------------------------------------------------------
(* Configuration *)

\* the environment object the handler destructures; thrown when there is no
\* object to destructure
ResolveEnv(v, rt, pe) ==
  CASE v = "functions" -> [thrown |-> ~rt.present, env |-> rt.vars]
    [] v = "part_000" ->
         IF rt.present THEN [thrown |-> FALSE, env |-> rt.vars]
                       ELSE [thrown |-> ~pe.present, env |-> pe.vars]
    [] OTHER ->
         \* { ...processEnv, ...runtimeEnv }
         [thrown |-> FALSE,
          env |-> [k \in Keys |-> IF rt.vars[k] # Undef THEN rt.vars[k] ELSE pe.vars[k]]]

\* the destructuring with the default of DOMO_EMBED_TYPE
Destructure(v, env) ==
  [env EXCEPT !["DOMO_EMBED_TYPE"] =
     IF @ # Undef \/ v = "functions" THEN @
     ELSE IF v = "part_000" THEN "page" ELSE "card"]

\* the validation with the asset identifier forgotten
MissingRequired_NoAssetId(c) ==
  \/ Falsy(c["DOMO_CLIENT_ID"])
  \/ Falsy(c["DOMO_CLIENT_SECRET"])
  \/ Falsy(c["DOMO_BASE_URL"])

MissingRequired(c) ==
  \/ Falsy(c["DOMO_CLIENT_ID"])
  \/ Falsy(c["DOMO_CLIENT_SECRET"])
  \/ Falsy(c["DOMO_BASE_URL"])
  \/ Falsy(c["DOMO_EMBED_ID"])

----------------------------------------------------------------------------
(* Outbound calls *)

\* btoa / Buffer.from(..).toString('base64')
Base64(s) == "base64(" \o s \o ")"

NoPayload == [form |-> "", sessionLength |-> 0, authorizations |-> <<>>]

\* a fetch: the Authorization header is the scheme followed by the credential
Call(endpoint, url, m, scheme, credential, payload) ==
  [endpoint |-> endpoint, url |-> url, method |-> m,
   authorization |-> scheme \o " " \o credential, credential |-> credential,
   payload |-> payload]

TokenCall(v, c) ==
  LET auth == Base64(c["DOMO_CLIENT_ID"] \o ":" \o c["DOMO_CLIENT_SECRET"])
      official == "https://api.domo.com/oauth/token?grant_type=client_credentials&scope=data%20audit%20user%20dashboard"
  IN CASE v = "functions" ->
            Call("token", c["DOMO_BASE_URL"] \o "/oauth/token", "POST", "Basic", auth,
                 [NoPayload EXCEPT !.form = "grant_type=client_credentials&scope=data%20dashboard"])
       [] v = "part_001" ->
            Call("token", "https://api.domo.com/oauth/token", "POST", "Basic", auth,
                 [NoPayload EXCEPT !.form = "grant_type=client_credentials&scope=user%20account%20data"])
       [] OTHER -> Call("token", official, "GET", "Basic", auth, NoPayload)

----------------------------------------------------------------------------
(* The handler, up to its first await *)

\* a response is handed over and the handler runs on
Respond_NoReturn(r) ==
  /\ responses' = Append(responses, r)
  /\ pc' = pc

\* return new Response(..)
Respond(r) ==
  /\ responses' = Append(responses, r)
  /\ pc' = "done"

\* a return outside the catch block
Return(r) == Respond(r) /\ UNCHANGED error

\* an exception reaches the catch block, which returns its error response
Throw(v, message, material) ==
  /\ error' = message
  /\ Respond(CatchResponse(v, message, material))

\* console.log / console.error of a message that holds the given values
Log(values) == console' = console \cup values

\* export async function OPTIONS / the OPTIONS branch of handler
OPTIONS ==
  /\ pc = "start"
  /\ method = "OPTIONS"
  /\ Return(PreflightResponse)
  /\ UNCHANGED console
  /\ UNCHANGED <<previous, suspended, variant, method, runtimeEnv, processEnv, cfg, tokenResponse,
                 tokenData, embedTokenResponse, embedTokenData, calls>>

\* handler / handleRequest from its entry to the fetch of the token
handleRequest ==
  /\ pc = "start"
  /\ method # "OPTIONS"
  /\ LET r == ResolveEnv(variant, runtimeEnv, processEnv)
         c == Destructure(variant, r.env)
     IN IF r.thrown
          THEN /\ Throw(variant, "Cannot destructure property", {})
               /\ UNCHANGED <<cfg, calls>>
          ELSE /\ cfg' = c
               /\ IF MissingRequired(c)
                    THEN /\ Return(ConfigErrorResponse(variant))
                         /\ UNCHANGED calls
                    ELSE /\ calls' = Append(calls, TokenCall(variant, c))
                         /\ pc' = "tokenFetch"
                         /\ UNCHANGED <<responses, error>>
  /\ Log({})
  /\ UNCHANGED <<previous, suspended, variant, method, runtimeEnv, processEnv, tokenResponse,
                 tokenData, embedTokenResponse, embedTokenData>>

----------------------------------------------------------------------------
(* Strings *)

\* the characters of the client identifiers of the model
Chars(s) ==
  CASE s = "rt-client-01" -> <<"r", "t", "-", "c", "l", "i", "e", "n", "t", "-", "0", "1">>
    [] s = "pe-id" -> <<"p", "e", "-", "i", "d">>
    [] OTHER -> <<s>>

RECURSIVE Join(_)
Join(cs) == IF cs = <<>> THEN "" ELSE Head(cs) \o Join(Tail(cs))

\* String.prototype.substring(from, to), 0-based, to exclusive and clamped
substring(s, from, to) ==
  LET cs == Chars(s)
      end == IF to > Len(cs) THEN Len(cs) ELSE to
  IN Join(SubSeq(cs, from + 1, end))

----------------------------------------------------------------------------
(* The upstream *)

\* every status below 500 taken for a success
IsOk_Below500(status) == status < 500

IsOk(status) == status \in 200..299

TokenStatuses == {200, 401}
EmbedStatuses == {200, 403}

\* the text of an upstream error body, as the set of the strings it holds:
\* a plain reason, or a message that quotes the credential it was sent
ErrorTexts(call) == {{"Unauthorized"}, {"Invalid credential: ", call.credential}}

\* the bodies json() can yield for a token response
TokenBodies == {[parsed |-> TRUE, access_token |-> t] : t \in {Undef, ""} \cup AccessTokens}
\* the bodies json() can yield for an embed-authorization response
EmbedBodies == {[parsed |-> TRUE, authentication |-> t] : t \in {Undef, ""} \cup EmbedTokens}

----------------------------------------------------------------------------
(* Step 1: the token exchange *)

AuthErrorResponse(v, c, status, errorText) ==
  IF v = "part_000"
    THEN NewResponse(
           JsonError("Authentication failed",
                     "Failed to get OAuth token: " \o ToString(status), {}),
           401, Spread(ContentType("application/json"), corsHeaders))
    ELSE NewResponse(
           JsonError("Authentication failed",
                     "Failed to get OAuth token: " \o ToString(status),
                     {IF Falsy(c["DOMO_CLIENT_ID"]) THEN "No"
                        ELSE "Yes (" \o substring(c["DOMO_CLIENT_ID"], 0, 8) \o "...)",
                      IF Falsy(c["DOMO_BASE_URL"]) THEN "No" ELSE c["DOMO_BASE_URL"]}
                       \cup errorText),
           401, Spread(ContentType("application/json"), corsHeaders))

\* the embed-authorization request with READ as the only permission
EmbedCall_ReadOnly(v, c, accessToken) ==
  Call("embed",
       IF v = "functions" THEN c["DOMO_BASE_URL"] \o "/api/content/v2/mobile"
       ELSE IF v = "part_000" THEN "https://api.domo.com/v1/stories/embed/auth"
       ELSE "https://api.domo.com/v1/cards/embed/auth",
       "POST", "Bearer", accessToken,
       [form |-> "", sessionLength |-> 240,
        authorizations |-> <<[token |-> c["DOMO_EMBED_ID"], permissions |-> <<"READ">>,
                              empties |-> {}]>>])

EmbedCall(v, c, accessToken) ==
  LET entry(token, permissions, empties) ==
        [token |-> token, permissions |-> permissions, empties |-> empties]
      payload(sessionLength, e) ==
        [form |-> "", sessionLength |-> sessionLength, authorizations |-> <<e>>]
  IN CASE v = "functions" ->
            Call("embed", c["DOMO_BASE_URL"] \o "/api/content/v2/mobile", "POST",
                 "Bearer", accessToken,
                 payload(3600, entry(c["DOMO_EMBED_ID"], <<"READ", "FILTER">>, {})))
       [] v = "part_000" ->
            Call("embed", "https://api.domo.com/v1/stories/embed/auth", "POST",
                 "Bearer", accessToken,
                 payload(240, entry("embed-auth", <<"READ">>, {})))
       [] v = "part_001" ->
            Call("embed", "https://api.domo.com/v1/cards/embed/auth", "POST",
                 "Bearer", accessToken,
                 payload(240, entry("embed-auth", <<"READ", "FILTER", "EXPORT">>, {})))
       [] v = "pages_api" ->
            Call("embed", "https://api.domo.com/v1/cards/embed/auth", "POST",
                 "Bearer", accessToken,
                 payload(1440, entry(c["DOMO_EMBED_ID"], <<"READ", "FILTER", "EXPORT">>, {})))
       [] OTHER ->
            Call("embed", "https://api.domo.com/v1/cards/embed/auth", "POST",
                 "Bearer", accessToken,
                 payload(1440, entry(c["DOMO_EMBED_ID"], <<"READ", "FILTER", "EXPORT">>,
                                     {"filters", "policies", "datasetRedirects", "sqlFilters"})))

\* await fetch(tokenUrl, ..) settles
TokenFetchSettles ==
  /\ pc = "tokenFetch"
  /\ \/ \* the fetch rejects: the catch block answers
        /\ Throw(variant, "fetch failed", {})
        /\ UNCHANGED tokenResponse
     \/ \E status \in TokenStatuses :
          /\ tokenResponse' = [arrived |-> TRUE, ok |-> IsOk(status), status |-> status]
          /\ IF IsOk(status)
               THEN pc' = "tokenJson" /\ UNCHANGED <<responses, error>>
               ELSE IF variant = "part_000"
                      THEN Return(AuthErrorResponse(variant, cfg, status, {}))
                      ELSE pc' = "tokenText" /\ UNCHANGED <<responses, error>>
  /\ Log({})
  /\ UNCHANGED <<previous, suspended, variant, method, runtimeEnv, processEnv, cfg, tokenData,
                 embedTokenResponse, embedTokenData, calls>>

\* after the failed token request the handler waits on the upstream again
TokenTextSettles_Again ==
  /\ pc = "tokenText"
  /\ pc' = "tokenFetch"
  /\ tokenResponse' = NoResponse
  /\ Log({})
  /\ UNCHANGED <<previous, suspended, variant, method, runtimeEnv, processEnv, cfg,
                 tokenData, embedTokenResponse, embedTokenData, error, calls,
                 responses>>

\* await tokenResponse.text() settles, in the branch of a failed token request
TokenTextSettles ==
  /\ pc = "tokenText"
  /\ \/ Throw(variant, "body stream error", {}) /\ Log({})
     \/ \E errorText \in ErrorTexts(calls[Len(calls)]) :
          \* console.error('OAuth token request failed:', .., errorText)
          /\ Log(errorText)
          /\ IF variant = "functions"
               THEN \* throw new Error(`OAuth request failed: ${response.status}`)
                    Throw(variant,
                          "OAuth request failed: " \o ToString(tokenResponse.status), {})
               ELSE Return(AuthErrorResponse(variant, cfg, tokenResponse.status, errorText))
  /\ UNCHANGED <<previous, suspended, variant, method, runtimeEnv, processEnv, cfg, tokenResponse,
                 tokenData, embedTokenResponse, embedTokenData, calls>>

\* await tokenResponse.json() settles; the handler goes on to the fetch of
\* the embed token
TokenJsonSettles ==
  /\ pc = "tokenJson"
  /\ \/ /\ Throw(variant, "Unexpected token in JSON", {})
        /\ Log({})
        /\ UNCHANGED <<tokenData, calls>>
     \/ \E data \in TokenBodies :
          /\ tokenData' = data
          /\ IF variant = "functions" /\ Falsy(data.access_token)
               THEN /\ Throw(variant, "Failed to obtain Domo access token", {})
                    /\ Log({})
                    /\ UNCHANGED calls
               ELSE /\ calls' = Append(calls, EmbedCall(variant, cfg, data.access_token))
                    /\ pc' = "embedFetch"
                    \* console.log('Embed token request:', { url, embedId,
                    \* hasAccessToken, requestBody })
                    /\ Log(IF variant \in {"functions", "part_000"} THEN {}
                           ELSE {EmbedCall(variant, cfg, data.access_token).url,
                                 cfg["DOMO_EMBED_ID"]})
                    /\ UNCHANGED <<responses, error>>
  /\ UNCHANGED <<previous, suspended, variant, method, runtimeEnv, processEnv, cfg, tokenResponse,
                 embedTokenResponse, embedTokenData>>

----------------------------------------------------------------------------
(* Step 2: the embed authorization *)

EmbedErrorResponse(v, c, call, status, embedErrorText) ==
  IF v = "part_000"
    THEN NewResponse(
           JsonError("Embed token generation failed",
                     "Failed to generate embed token: " \o ToString(status), {}),
           500, Spread(ContentType("application/json"), corsHeaders))
    ELSE NewResponse(
           JsonError("Embed token generation failed",
                     "Failed to generate embed token: " \o ToString(status),
                     {c["DOMO_EMBED_ID"], call.url} \cup embedErrorText),
           500, Spread(ContentType("application/json"), corsHeaders))

\* a rejected fetch of the embed token is issued again
EmbedFetchSettles_Retry ==
  /\ pc = "embedFetch"
  /\ calls' = Append(calls, calls[Len(calls)])
  /\ UNCHANGED <<previous, suspended, variant, method, runtimeEnv, processEnv, pc, cfg, tokenResponse,
                 tokenData, embedTokenResponse, embedTokenData, error, console, responses>>

\* await fetch(embedTokenUrl, ..) settles
EmbedFetchSettles ==
  /\ pc = "embedFetch"
  /\ \/ /\ Throw(variant, "fetch failed", {})
        /\ UNCHANGED embedTokenResponse
     \/ \E status \in EmbedStatuses :
          /\ embedTokenResponse' = [arrived |-> TRUE, ok |-> IsOk(status), status |-> status]
          /\ IF IsOk(status)
               THEN pc' = "embedJson" /\ UNCHANGED <<responses, error>>
               ELSE IF variant = "part_000"
                      THEN Return(EmbedErrorResponse(variant, cfg, calls[Len(calls)], status, {}))
                      ELSE pc' = "embedText" /\ UNCHANGED <<responses, error>>
  /\ Log({})
  /\ UNCHANGED <<previous, suspended, variant, method, runtimeEnv, processEnv, cfg, tokenResponse,
                 tokenData, embedTokenData, calls>>

\* await embedTokenResponse.text() settles, in the branch of a failed request
EmbedTextSettles ==
  /\ pc = "embedText"
  /\ \/ Throw(variant, "body stream error", {}) /\ Log({})
     \/ \E embedErrorText \in ErrorTexts(calls[Len(calls)]) :
          \* console.error('Embed token request failed:', .., embedErrorText)
          /\ Log(embedErrorText)
          /\ IF variant = "functions"
               THEN \* throw new Error(`Embed token request failed: ${response.status}`)
                    Throw(variant,
                          "Embed token request failed: " \o ToString(embedTokenResponse.status), {})
               ELSE Return(EmbedErrorResponse(variant, cfg, calls[Len(calls)],
                                               embedTokenResponse.status, embedErrorText))
  /\ UNCHANGED <<previous, suspended, variant, method, runtimeEnv, processEnv, cfg, tokenResponse,
                 tokenData, embedTokenResponse, embedTokenData, calls>>

----------------------------------------------------------------------------
(* Step 3: the response that carries the embed *)

\* the URL the response embeds, per handler
\* the pieces the template literal of embedUrl is put together from:
\* origin, path segment, asset identifier, then the query and hash pieces
embedUrlParts(v, c, embedToken) ==
  CASE v = "functions" ->
         <<c["DOMO_BASE_URL"], "/content/", c["DOMO_EMBED_ID"], "?embedId=", embedToken>>
    [] v = "part_000" ->
         <<c["DOMO_BASE_URL"], "/embed/pages/", c["DOMO_EMBED_ID"], "?embedToken=", embedToken>>
    [] v = "part_001" ->
         <<"https://embed.domo.com", "/cards/", c["DOMO_EMBED_ID"], "?embedToken=", embedToken>>
    [] v = "pages_api" ->
         <<"https://embed.domo.com", "/cards/", c["DOMO_EMBED_ID"],
           "?embedTokenValue=", embedToken, "&embedToken=", embedToken,
           "&token=", embedToken, "&auth=", embedToken,
           "#embedTokenValue=", embedToken, "&embedToken=", embedToken,
           "&token=", embedToken>>
    [] OTHER ->
         <<c["DOMO_BASE_URL"], "/embed/card/private/", c["DOMO_EMBED_ID"]>>

embedUrl(v, c, embedToken) == Join(embedUrlParts(v, c, embedToken))

SuccessBody(v, c, embedToken) ==
  CASE v \in {"functions", "part_000", "part_001"} ->
         Body("html", "", "", "iframe", embedUrl(v, c, embedToken), "",
              {"query"},
              (IF v = "part_001" THEN {} ELSE {c["DOMO_BASE_URL"]})
                \cup {c["DOMO_EMBED_ID"], embedToken})
    [] v = "pages_api" ->
         Body("html", "", "", "iframe", embedUrl(v, c, embedToken), "",
              {"query", "hash", "document.cookie", "localStorage", "sessionStorage",
               "postMessage"},
              {c["DOMO_EMBED_ID"], embedToken})
    [] OTHER ->
         Body("html", "", "", "form", embedUrl(v, c, embedToken), embedToken,
              {"form-field"},
              {c["DOMO_BASE_URL"], c["DOMO_EMBED_ID"], embedToken})

\* success headers whose last spread is left out
SuccessHeaders_NoCors(v, embedToken) ==
  Spread(ContentType("text/html"), cacheHeaders)

SuccessHeaders(v, embedToken) ==
  CASE v = "functions" -> Spread(corsHeaders, ContentType("text/html"))
    [] v = "pages_api" ->
         Spread(Spread(Spread(ContentType("text/html"), cacheHeaders),
                       [n \in {"Set-Cookie"} |->
                          "domoEmbedToken=" \o embedToken \o "; path=/; max-age=86400; SameSite=None; Secure"
                          \o ", embedToken=" \o embedToken \o "; path=/; max-age=86400; SameSite=None; Secure"
                          \o ", token=" \o embedToken \o "; path=/; max-age=86400; SameSite=None; Secure"]),
                corsHeaders)
    [] OTHER -> Spread(Spread(ContentType("text/html"), cacheHeaders), corsHeaders)

SuccessResponse(v, c, embedToken) ==
  NewResponse(SuccessBody(v, c, embedToken), 200, SuccessHeaders(v, embedToken))

\* await embedTokenResponse.json() settles; the handler builds its response
\* What the handler logs before it returns the success response:
\* console.log('Full embedUrl:', embedUrl) in the pages/api handler,
\* console.log('Returning HTML form with embed token, embedUrl:', embedUrl)
\* in the README handler, fixed texts elsewhere.
SuccessLog(v, c, embedToken) ==
  CASE v = "pages_api" -> {c["DOMO_EMBED_ID"], embedToken}
    [] v = "readme"    -> {c["DOMO_BASE_URL"], c["DOMO_EMBED_ID"]}
    [] OTHER           -> {}

EmbedJsonSettles ==
  /\ pc = "embedJson"
  /\ \/ /\ Throw(variant, "Unexpected token in JSON", {})
        /\ Log({})
        /\ UNCHANGED embedTokenData
     \/ \E data \in EmbedBodies :
          /\ embedTokenData' = data
          /\ IF variant = "functions" /\ Falsy(data.authentication)
               THEN Throw(variant, "Failed to generate embed token", {}) /\ Log({})
               ELSE /\ Return(SuccessResponse(variant, cfg, data.authentication))
                    /\ Log(SuccessLog(variant, cfg, data.authentication))
  /\ UNCHANGED <<previous, suspended, variant, method, runtimeEnv, processEnv, cfg, tokenResponse,
                 tokenData, embedTokenResponse, calls>>

Next ==
  \/ OPTIONS
  \/ handleRequest
  \/ TokenFetchSettles
  \/ TokenTextSettles
  \/ TokenJsonSettles
  \/ EmbedFetchSettles
  \/ EmbedTextSettles
  \/ EmbedJsonSettles

Spec == Init /\ [][Next]_vars

\* The platform invokes the exported handler once more with the same request
\* and the same environment, after an invocation that returned the embed.
\* Every const of the handler is local to the call: the new invocation
\* starts from the state of the first, and only the platform keeps what the
\* earlier one returned.
NextInvocation ==
  /\ pc = "done"
  /\ Len(previous) < MaxInvocations - 1
  /\ responses[Len(responses)].status = 200
  /\ responses[Len(responses)].body.embed # "none"
  /\ previous' = Append(previous, [response |-> responses[Len(responses)],
                                    authentication |-> embedTokenData.authentication])
  /\ pc' = "start"
  /\ cfg' = NoVars
  /\ tokenResponse' = NoResponse
  /\ tokenData' = NoData
  /\ embedTokenResponse' = NoResponse
  /\ embedTokenData' = NoEmbedData
  /\ error' = ""
  /\ console' = {}
  /\ calls' = <<>>
  /\ responses' = <<>>
  /\ UNCHANGED <<variant, method, runtimeEnv, processEnv, suspended>>

NextSuccessive ==
  \/ Next
  \/ NextInvocation

\* Every pending await settles: the fetch or the body read completes or
\* fails, and the platform runs the handler it has invoked.
SpecLive == Spec /\ WF_vars(Next)

SpecSuccessive == Init /\ [][NextSuccessive]_vars

----------------------------------------------------------------------------
(* Concurrent invocations *)

\* The request and every const and let of the handler belong to one call of
\* the function: these are the locals of the running invocation.
Locals ==
  [method |-> method, pc |-> pc, cfg |-> cfg, tokenResponse |-> tokenResponse,
   tokenData |-> tokenData, embedTokenResponse |-> embedTokenResponse,
   embedTokenData |-> embedTokenData, error |-> error, calls |-> calls,
   responses |-> responses]

\* A second request arrives while the first invocation is in progress: the
\* platform calls the handler again, with a request of its own and the same
\* environment.
ConcurrentRequest ==
  /\ suspended.pc = "absent"
  /\ \E m \in Methods : suspended' = [NoInvocation EXCEPT !.method = m, !.pc = "start"]
  /\ UNCHANGED <<variant, method, runtimeEnv, processEnv, pc, cfg, tokenResponse,
                 tokenData, embedTokenResponse, embedTokenData, error, console,
                 calls, responses, previous>>

\* an interleaving in which tokenData is shared by the invocations
Switch_SharedTokenData ==
  /\ suspended.pc \notin {"absent", "done"}
  /\ suspended' = Locals
  /\ method' = suspended.method
  /\ pc' = suspended.pc
  /\ cfg' = suspended.cfg
  /\ tokenResponse' = suspended.tokenResponse
  /\ embedTokenResponse' = suspended.embedTokenResponse
  /\ embedTokenData' = suspended.embedTokenData
  /\ error' = suspended.error
  /\ calls' = suspended.calls
  /\ responses' = suspended.responses
  /\ UNCHANGED <<tokenData, variant, runtimeEnv, processEnv, console, previous>>

\* The running invocation waits at an await (or has returned) and the event
\* loop continues the other invocation: each invocation keeps its own
\* locals, the environment and the log are the ones of the process.
Switch ==
  /\ suspended.pc \notin {"absent", "done"}
  /\ suspended' = Locals
  /\ method' = suspended.method
  /\ pc' = suspended.pc
  /\ cfg' = suspended.cfg
  /\ tokenResponse' = suspended.tokenResponse
  /\ tokenData' = suspended.tokenData
  /\ embedTokenResponse' = suspended.embedTokenResponse
  /\ embedTokenData' = suspended.embedTokenData
  /\ error' = suspended.error
  /\ calls' = suspended.calls
  /\ responses' = suspended.responses
  /\ UNCHANGED <<variant, runtimeEnv, processEnv, console, previous>>

\* both environment sources are complete
InitConcurrent ==
  /\ Init
  /\ runtimeEnv = [present |-> TRUE, vars |-> FullEnv("runtime")]
  /\ processEnv = [present |-> TRUE, vars |-> FullEnv("process")]

NextConcurrent ==
  \/ Next
  \/ ConcurrentRequest
  \/ Switch

SpecConcurrent == InitConcurrent /\ [][NextConcurrent]_vars

----------------------------------------------------------------------------
(* What the properties speak about *)

Done == pc = "done"

\* the response of the invocation
Resp == responses[Len(responses)]

Issued(endpoint) == \E i \in 1..Len(calls) : calls[i].endpoint = endpoint

\* the call of the invocation to an endpoint
TheCall(endpoint) == CHOOSE call \in {calls[i] : i \in 1..Len(calls)} : call.endpoint = endpoint

\* the transport failed: a fetch was rejected or a body could not be read
TransportAbort == error \in {"fetch failed", "body stream error"}

TwoXX == 200..299

CorsNames == {"Access-Control-Allow-Origin", "Access-Control-Allow-Methods",
              "Access-Control-Allow-Headers"}

HasCors(r) ==
  /\ CorsNames \subseteq DOMAIN r.headers
  /\ r.headers["Access-Control-Allow-Origin"] = "*"
  /\ r.headers["Access-Control-Allow-Methods"] = "GET, POST, OPTIONS"
  /\ r.headers["Access-Control-Allow-Headers"] = "Content-Type, Authorization"

----------------------------------------------------------------------------
(* C1 *)

\* C1: in every handler, once the token endpoint has answered with a
\* non-2xx status, no request to the embed-authorization endpoint is issued
\* and the response of the invocation has status 401 (an invocation whose
\* transport broke while the error body was read is left aside).
C1_TokenFailureIs401 ==
  (method # "OPTIONS" /\ tokenResponse.arrived /\ tokenResponse.status \notin TwoXX) =>
    /\ ~Issued("embed")
    /\ (Done /\ ~TransportAbort) => Resp.status = 401

----------------------------------------------------------------------------
(* C2 *)

\* C2: a GET or POST invocation whose destructured configuration lacks one
\* of the four required values (unset or empty) has returned status 500 with
\* the body { error: 'Server configuration error' } and has issued no
\* outbound call.
C2_MissingConfigIs500NoCalls ==
  (/\ method # "OPTIONS"
   /\ pc # "start"
   /\ error # "Cannot destructure property"
   /\ \E k \in RequiredKeys : cfg[k] = Undef \/ cfg[k] = "") =>
    /\ Done
    /\ Len(responses) = 1
    /\ Resp.status = 500
    /\ Resp.body.type = "json"
    /\ Resp.body.error = "Server configuration error"
    /\ calls = <<>>

\* an invocation whose asset identifier is empty has been answered
C2_Witness ==
  /\ Done
  /\ method = "POST"
  /\ cfg["DOMO_CLIENT_ID"] = "rt-client-01"
  /\ cfg["DOMO_EMBED_ID"] = ""
  /\ Resp.body.error = "Server configuration error"

----------------------------------------------------------------------------
(* C3 *)

\* C3: when the configuration is valid and both upstream calls return 2xx
\* with their token fields, every handler returns status 200 with the CORS
\* headers and an embed whose URL is
\* {baseUrl}/embed/{kind}s/{assetId}?embedToken={token}.
C3_SuccessCarriesAssetUrl ==
  (/\ Done
   /\ tokenResponse.status \in TwoXX
   /\ embedTokenResponse.status \in TwoXX
   /\ tokenData.access_token \in AccessTokens
   /\ embedTokenData.authentication \in EmbedTokens) =>
    /\ Resp.status = 200
    /\ HasCors(Resp)
    /\ \E kind \in {"page", "card", "story"} :
         Resp.body.src = cfg["DOMO_BASE_URL"] \o "/embed/" \o kind \o "s/"
                           \o cfg["DOMO_EMBED_ID"] \o "?embedToken="
                           \o embedTokenData.authentication

----------------------------------------------------------------------------
(* C4 *)

\* the body names the embed-authorization step as the one that failed
EmbedErrorBody(b, status) ==
  \/ b.error = "Embed token generation failed"
  \/ b.details = "Embed token request failed: " \o ToString(status)

\* C4: when the token call returned 2xx and the embed-authorization call a
\* non-2xx status, the response has status 500, its body is the
\* embed-authorization error, and neither the client secret nor the access
\* token occurs in that body.
C4_EmbedFailureIs500NoSecrets ==
  (/\ Done
   /\ ~TransportAbort
   /\ tokenResponse.status \in TwoXX
   /\ embedTokenResponse.arrived
   /\ embedTokenResponse.status \notin TwoXX) =>
    /\ Resp.status = 500
    /\ EmbedErrorBody(Resp.body, embedTokenResponse.status)
    /\ cfg["DOMO_CLIENT_SECRET"] \notin Resp.body.material
    /\ tokenData.access_token \in AccessTokens =>
         tokenData.access_token \notin Resp.body.material

----------------------------------------------------------------------------
(* C5 *)

\* C5: an OPTIONS request is answered with status 200, a null body and
\* exactly the three CORS headers, without the configuration being read and
\* without an outbound call, whatever the environment sources hold.
C5_OptionsIsBarePreflight ==
  (method = "OPTIONS" /\ pc # "start") =>
    /\ Done
    /\ Len(responses) = 1
    /\ Resp.status = 200
    /\ Resp.body.type = "null"
    /\ DOMAIN Resp.headers = CorsNames
    /\ HasCors(Resp)
    /\ cfg = NoVars
    /\ error = ""
    /\ calls = <<>>

\* an OPTIONS request was answered although neither environment source exists
C5_Witness ==
  /\ method = "OPTIONS"
  /\ Done
  /\ ~runtimeEnv.present
  /\ ~processEnv.present
  /\ Resp.status = 200

----------------------------------------------------------------------------
(* C6 *)

\* C6: a request to the embed-authorization endpoint has been issued only
\* if the token call returned 2xx with a present, non-empty access_token,
\* and its Bearer value is that access token.
C6_EmbedCallOnlyWithAccessToken ==
  Issued("embed") =>
    /\ tokenResponse.status \in TwoXX
    /\ tokenData.parsed
    /\ tokenData.access_token \notin {Undef, ""}
    /\ TheCall("embed").authorization = "Bearer " \o tokenData.access_token

----------------------------------------------------------------------------
(* C7 *)

\* C7: when the token endpoint returned 2xx and its JSON body has no
\* access_token field, the invocation ends with the authentication error,
\* status 401.
C7_MissingAccessTokenIs401 ==
  (/\ Done
   /\ ~TransportAbort
   /\ tokenResponse.status \in TwoXX
   /\ tokenData.parsed
   /\ tokenData.access_token = Undef) =>
    /\ Resp.status = 401
    /\ Resp.body.error = "Authentication failed"

----------------------------------------------------------------------------
(* C8 *)

\* C8: when the embed-authorization endpoint returned 2xx and its JSON body
\* has no authentication field, the invocation ends with status 500 and
\* without an embed; no status-200 response carries an undefined token.
C8_MissingAuthenticationIs500 ==
  (/\ Done
   /\ embedTokenResponse.status \in TwoXX
   /\ embedTokenData.parsed
   /\ embedTokenData.authentication = Undef) =>
    /\ Resp.status = 500
    /\ Resp.body.embed = "none"

----------------------------------------------------------------------------
(* C9 *)

\* C9: a finished GET or POST invocation either returned status 200 with an
\* embed (iframe or form), and then it issued exactly the token call and
\* after it the embed-authorization call and both returned 2xx, or it
\* returned an error status with a body that holds no iframe and no form.
C9_EmbedOnlyAfterBothCalls ==
  (Done /\ method # "OPTIONS") =>
    IF Resp.status = 200 \/ Resp.body.embed # "none"
      THEN /\ Resp.status = 200
           /\ Resp.body.embed \in {"iframe", "form"}
           /\ [i \in 1..Len(calls) |-> calls[i].endpoint] = <<"token", "embed">>
           /\ tokenResponse.status \in TwoXX
           /\ embedTokenResponse.status \in TwoXX
      ELSE /\ Resp.status \in {401, 500}
           /\ Resp.body.src = ""
           /\ Resp.body.field = ""
           /\ Resp.body.channels = {}

\* the README handler returned its auto-submitting form after both calls
C9_Witness ==
  /\ Done
  /\ Resp.status = 200
  /\ Resp.body.embed = "form"
  /\ Len(calls) = 2
  /\ embedTokenData.authentication \in EmbedTokens

----------------------------------------------------------------------------
(* C10 *)

\* the variant of the tagged Response that a response is
ResponseVariant(r) ==
  CASE r.body.type = "null" -> "Preflight"
    [] r.status = 200 /\ r.body.embed # "none" -> "Success"
    [] r.body.error = "Server configuration error" -> "ConfigError"
    [] r.body.error = "Authentication failed" -> "AuthError"
    [] r.body.error = "Embed token generation failed" -> "EmbedError"
    [] r.body.error \in {"Internal server error", "Unable to Load AI Use Case Chat"} ->
         "InternalError"
    [] OTHER -> "Unknown"

FiveVariants == {"Success", "ConfigError", "AuthError", "EmbedError", "InternalError"}

\* once a response has been returned, no call is issued and no response added
NothingAfterResponse == (responses # <<>>) => UNCHANGED <<calls, responses>>

\* C10 as claimed: every finished invocation has returned exactly one
\* response, which is one of Success, ConfigError, AuthError, EmbedError and
\* InternalError.
C10_OneOfFiveVariants ==
  /\ Len(responses) <= 1
  /\ Done <=> Len(responses) = 1
  /\ Done => ResponseVariant(Resp) \in FiveVariants

\* C10 as amended: every invocation returns at most one response and is
\* finished exactly when it has returned it; the response of a GET or POST
\* invocation is one of the five variants, the response of an OPTIONS
\* invocation is the preflight response, which is none of them; after the
\* response no outbound call is issued and no second response returned.
C10_OneResponsePerInvocation ==
  /\ [](/\ Len(responses) <= 1
        /\ Done <=> Len(responses) = 1
        /\ Done => IF method = "OPTIONS"
                     THEN ResponseVariant(Resp) = "Preflight"
                     ELSE ResponseVariant(Resp) \in FiveVariants)
  /\ [][NothingAfterResponse]_vars

\* reaching each of the variants
C10_Witness ==
  /\ Done
  /\ method = "GET"
  /\ Len(responses) = 1
  /\ Len(calls) = 2
  /\ ResponseVariant(Resp) = "EmbedError"

----------------------------------------------------------------------------
(* C11 *)

CallsTo(endpoint) == {i \in 1..Len(calls) : calls[i].endpoint = endpoint}

\* C11: within one invocation the token endpoint is called at most once and
\* the embed-authorization endpoint at most once, whatever the upstream
\* returned or however a call failed.
C11_EachEndpointAtMostOnce ==
  /\ Cardinality(CallsTo("token")) <= 1
  /\ Cardinality(CallsTo("embed")) <= 1
  /\ Len(calls) <= 2

\* the fetch of the embed token was rejected and the invocation has ended
C11_Witness ==
  /\ Done
  /\ error = "fetch failed"
  /\ Cardinality(CallsTo("token")) = 1
  /\ Cardinality(CallsTo("embed")) = 1

----------------------------------------------------------------------------
(* C12 *)

\* C12: an invocation in which an exception was raised (a rejected fetch, a
\* body that cannot be read or parsed, an environment that cannot be
\* destructured, an error thrown by the handler itself) has returned the
\* internal error, status 500 with the CORS headers; when the exception came
\* before the token body was parsed, no embed-authorization call was issued.
C12_ExceptionIsInternalError ==
  (error # "") =>
    /\ Done
    /\ Len(responses) = 1
    /\ Resp.status = 500
    /\ HasCors(Resp)
    /\ Resp.body.error \in {"Internal server error", "Unable to Load AI Use Case Chat"}
    /\ Resp.body.details = error
    /\ Resp.body.embed = "none"
    /\ ~tokenData.parsed => ~Issued("embed")

\* the JSON of the token response could not be parsed
C12_Witness ==
  /\ Done
  /\ error = "Unexpected token in JSON"
  /\ tokenResponse.status = 200
  /\ ~tokenData.parsed
  /\ Resp.status = 500

----------------------------------------------------------------------------
(* C13 *)

\* the invocation went down the success path
SuccessPath ==
  /\ tokenResponse.status \in TwoXX
  /\ embedTokenResponse.status \in TwoXX
  /\ embedTokenData.parsed
  /\ error = ""

\* C13: the status of every response is 200, 401 or 500; every response but
\* the preflight response has a Content-Type of text/html or
\* application/json; status 200 with text/html occurs on the success path only.
C13_StatusAndContentType ==
  Done =>
    /\ Resp.status \in {200, 401, 500}
    /\ method # "OPTIONS" =>
         /\ "Content-Type" \in DOMAIN Resp.headers
         /\ Resp.headers["Content-Type"] \in {"text/html", "application/json"}
         /\ (Resp.status = 200 /\ Resp.headers["Content-Type"] = "text/html") => SuccessPath
         /\ Resp.status = 200 => Resp.headers["Content-Type"] = "text/html"

\* an authentication error with its JSON content type
C13_Witness ==
  /\ Done
  /\ Resp.status = 401
  /\ Resp.headers["Content-Type"] = "application/json"

----------------------------------------------------------------------------
(* C14 *)

\* C14: every response, the preflight response included, carries the three
\* CORS headers with the values *, GET, POST, OPTIONS and
\* Content-Type, Authorization.
C14_CorsOnEveryResponse ==
  \A i \in 1..Len(responses) :
    /\ CorsNames \subseteq DOMAIN responses[i].headers
    /\ responses[i].headers["Access-Control-Allow-Origin"] = "*"
    /\ responses[i].headers["Access-Control-Allow-Methods"] = "GET, POST, OPTIONS"
    /\ responses[i].headers["Access-Control-Allow-Headers"] = "Content-Type, Authorization"

\* a success response with a Set-Cookie header spread before the CORS headers
C14_Witness ==
  /\ Done
  /\ Resp.status = 200
  /\ "Set-Cookie" \in DOMAIN Resp.headers
  /\ HasCors(Resp)

----------------------------------------------------------------------------
(* C15 *)

\* C15: every success response (status 200 to a GET or POST) carries
\* Content-Type: text/html and the headers Cache-Control: no-cache, no-store,
\* must-revalidate, Pragma: no-cache and Expires: 0.
C15_SuccessDisablesCaching ==
  (Done /\ method # "OPTIONS" /\ Resp.status = 200) =>
    /\ {"Content-Type", "Cache-Control", "Pragma", "Expires"} \subseteq DOMAIN Resp.headers
    /\ Resp.headers["Content-Type"] = "text/html"
    /\ Resp.headers["Cache-Control"] = "no-cache, no-store, must-revalidate"
    /\ Resp.headers["Pragma"] = "no-cache"
    /\ Resp.headers["Expires"] = "0"

\* The values that must stay secret in the present invocation: the client
\* secret, the access token obtained and the embed token obtained.
Secrets ==
  ({cfg["DOMO_CLIENT_SECRET"], tokenData.access_token,
    embedTokenData.authentication}) \ {Undef, ""}

\* C16: on no path does the client secret, the access token or the full
\* embed token appear in a console log entry or in the body of an error
\* response, also when upstream error text or the exception message is echoed.
C16_NoSecretInLogsOrErrorBodies ==
  /\ console \cap Secrets = {}
  /\ \A i \in 1..Len(responses) :
        responses[i].status \notin TwoXX => responses[i].body.material \cap Secrets = {}

\* the views of the client identifier that leave out at least one character
TruncatedViews(id) ==
  {"Yes (" \o substring(id, 0, n) \o "...)" : n \in 0..(Len(Chars(id)) - 1)}

\* C17: the 401 body carries the upstream status code and a view of the
\* client identifier that is truncated and never the full identifier,
\* whatever the length of the identifier.
C17_AuthErrorShowsTruncatedClientId ==
  (Done /\ Resp.status = 401) =>
    /\ Resp.body.details = "Failed to get OAuth token: " \o ToString(tokenResponse.status)
    /\ Resp.body.material \cap TruncatedViews(cfg["DOMO_CLIENT_ID"]) # {}
    /\ ("Yes (" \o cfg["DOMO_CLIENT_ID"] \o "...)") \notin Resp.body.material

\* the embed-authorization endpoint of an embed kind
KindEndpoint(kind) ==
  "https://api.domo.com/v1/" \o (IF kind = "page" THEN "stories" ELSE "cards")
    \o "/embed/auth"

\* the path segments of an asset URL that name an embed kind
KindSegments(kind) ==
  IF kind = "page" THEN {"/embed/pages/"}
  ELSE {"/embed/cards/", "/cards/", "/embed/card/private/"}

\* C19: for each value of the embed-type setting, the default of an unset
\* one included, the embed-authorization endpoint called and the kind
\* segment of the returned asset URL belong to that kind.
C19_EndpointFollowsEmbedType ==
  /\ Issued("embed") =>
        /\ cfg["DOMO_EMBED_TYPE"] \in {"page", "card"}
        /\ TheCall("embed").url = KindEndpoint(cfg["DOMO_EMBED_TYPE"])
  /\ (Done /\ Resp.status = 200 /\ Resp.body.type = "html" /\ Resp.body.embed # "none") =>
        LET parts == embedUrlParts(variant, cfg, embedTokenData.authentication)
        IN /\ Resp.body.src = Join(parts)
           /\ parts[2] \in KindSegments(cfg["DOMO_EMBED_TYPE"])

\* the key-wise merge of the two sources, the runtime value first
Merged ==
  [k \in Keys |-> IF runtimeEnv.vars[k] # Undef THEN runtimeEnv.vars[k]
                                                ELSE processEnv.vars[k]]

\* C20: when both environment sources exist the resolved configuration is
\* their key-wise merge, the runtime value taking precedence, and the
\* validation of the four required values is applied to the merged result.
C20_ConfigIsMergeOfSources ==
  (pc # "start" /\ method # "OPTIONS" /\ runtimeEnv.present /\ processEnv.present) =>
    /\ \A k \in RequiredKeys : cfg[k] = Merged[k]
    /\ (\E k \in RequiredKeys : Falsy(Merged[k])) <=> calls = <<>>

Placeholder == "{embed-token}"

\* the pieces of a text with every occurrence of the token replaced
Masked(parts, token) ==
  [i \in DOMAIN parts |-> IF parts[i] = token THEN Placeholder ELSE parts[i]]

\* a success body with every occurrence of the token replaced
MaskedBody(body, token) ==
  [body EXCEPT !.src = Join(Masked(embedUrlParts(variant, cfg, token), token)),
               !.field = IF @ = token THEN Placeholder ELSE @,
               !.material = {IF m = token THEN Placeholder ELSE m : m \in @}]

\* C18: two successive invocations with the same configuration that each
\* obtained an embed token return the same status, the same headers and
\* bodies that are identical once the embed token is replaced by a
\* placeholder.
C18_SuccessiveInvocationsAgree ==
  \A i \in 1..Len(previous) :
    (/\ Done /\ Resp.status = 200 /\ Resp.body.embed # "none"
     /\ previous[i].authentication \in EmbedTokens
     /\ embedTokenData.authentication \in EmbedTokens) =>
      LET first == previous[i].response
          firstToken == previous[i].authentication
          secondToken == embedTokenData.authentication
      IN /\ Resp.status = first.status
         /\ Resp.headers = first.headers
         /\ first.body.src = Join(embedUrlParts(variant, cfg, firstToken))
         /\ Resp.body.src = Join(embedUrlParts(variant, cfg, secondToken))
         /\ MaskedBody(Resp.body, secondToken) = MaskedBody(first.body, firstToken)

----------------------------------------------------------------------------
(* C21 .. C24: the payload of the embed-authorization request *)

\* the authorization entries of the embed-authorization request
Authorizations == TheCall("embed").payload.authorizations

\* the permissions of an authorization entry, as a set
Permissions(entry) == {entry.permissions[i] : i \in 1..Len(entry.permissions)}

\* C21: the single authorization entry of every embed-authorization request
\* names the configured asset identifier, the one that also appears in the
\* asset URL of the success response.
C21_EntryNamesConfiguredAsset ==
  /\ Issued("embed") =>
        /\ Len(Authorizations) = 1
        /\ Authorizations[1].token = cfg["DOMO_EMBED_ID"]
  /\ (Done /\ Resp.status = 200 /\ Resp.body.embed # "none") =>
        /\ Resp.body.src = Join(embedUrlParts(variant, cfg, embedTokenData.authentication))
        /\ embedUrlParts(variant, cfg, embedTokenData.authentication)[3]
             = Authorizations[1].token

\* C22: the permissions sent are exactly READ in the page handler, exactly
\* READ, FILTER and EXPORT in every card handler, and in every handler a
\* non-empty subset of READ, FILTER, EXPORT.
C22_PermissionsFollowAssetKind ==
  Issued("embed") =>
    \A i \in 1..Len(Authorizations) :
      LET permissions == Permissions(Authorizations[i])
      IN /\ permissions # {}
         /\ permissions \subseteq {"READ", "FILTER", "EXPORT"}
         /\ variant = "part_000" => permissions = {"READ"}
         /\ variant \in {"part_001", "pages_api", "readme"} =>
              permissions = {"READ", "FILTER", "EXPORT"}

\* an embed-authorization request of a card handler has been issued
C22_Witness ==
  /\ Issued("embed")
  /\ variant = "pages_api"
  /\ Permissions(Authorizations[1]) = {"READ", "FILTER", "EXPORT"}

\* C23: no handler reads a session length from the configuration, and the
\* sessionLength sent in the embed-authorization request is 240 in every
\* handler.
C23_SessionLengthIs240 ==
  Issued("embed") => TheCall("embed").payload.sessionLength = 240

\* C24: no authorization entry of an embed-authorization request carries
\* filters, policies, datasetRedirects or sqlFilters as an empty list.
C24_NoEmptyOptionalFields ==
  Issued("embed") =>
    \A i \in 1..Len(Authorizations) : Authorizations[i].empties = {}

----------------------------------------------------------------------------
(* C25 *)

\* C25: a success response delivers the embed token through exactly one
\* encoding, the query of an iframe src or the hidden field of a form, and
\* through no hash fragment, cookie, Set-Cookie header, storage write or
\* postMessage.
C25_OneDeliveryChannel ==
  (Done /\ Resp.status = 200 /\ Resp.body.embed # "none") =>
    /\ Cardinality(Resp.body.channels) = 1
    /\ Resp.body.channels \subseteq {"query", "form-field"}
    /\ Resp.body.embed = "form" <=> Resp.body.channels = {"form-field"}
    /\ "Set-Cookie" \notin DOMAIN Resp.headers

----------------------------------------------------------------------------
(* C26 *)

\* the responses an invocation returns when it runs alone and the upstream
\* answers it what the invocation with locals l was answered
AloneResponses(l) ==
  IF l.method = "OPTIONS" THEN {PreflightResponse}
  ELSE IF l.error # "" THEN {CatchResponse(variant, l.error, {})}
  ELSE IF l.calls = <<>> THEN {ConfigErrorResponse(variant)}
  ELSE IF ~l.tokenResponse.ok
    THEN {AuthErrorResponse(variant, l.cfg, l.tokenResponse.status, t) :
            t \in ErrorTexts(l.calls[1]) \cup {{}}}
  ELSE IF ~l.embedTokenResponse.ok
    THEN {EmbedErrorResponse(variant, l.cfg, l.calls[2], l.embedTokenResponse.status, t) :
            t \in ErrorTexts(l.calls[2]) \cup {{}}}
  ELSE {SuccessResponse(variant, l.cfg, l.embedTokenData.authentication)}

\* the invocation with locals l has used only what belongs to it
OwnStateOnly(l) ==
  /\ l.cfg \in {NoVars,
                Destructure(variant, ResolveEnv(variant, runtimeEnv, processEnv).env)}
  /\ Len(l.calls) <= 2
  /\ Len(l.calls) >= 1 => l.calls[1] = TokenCall(variant, l.cfg)
  /\ Len(l.calls) = 2 =>
        /\ l.tokenData.parsed
        /\ l.calls[2].authorization = "Bearer " \o l.tokenData.access_token
        /\ l.calls[2] = EmbedCall(variant, l.cfg, l.tokenData.access_token)
  /\ l.pc # "done" => l.responses = <<>>
  /\ l.pc = "done" =>
        /\ Len(l.responses) = 1
        /\ l.responses[1] \in AloneResponses(l)
        /\ (l.responses[1].status = 200 /\ l.responses[1].body.embed # "none") =>
             l.responses[1].body.src
               = embedUrl(variant, l.cfg, l.embedTokenData.authentication)

\* C26: however two concurrent invocations interleave at their awaits, each
\* sends as Bearer the access token returned to its own token call, returns
\* the embed token returned to its own embed call and the response it would
\* return alone, and uses none of the other's state.
C26_ConcurrentInvocationsIsolated ==
  /\ OwnStateOnly(Locals)
  /\ suspended.pc # "absent" => OwnStateOnly(suspended)

\* an invocation has run from its start to its success response while the
\* other one waits for its embed fetch with a different access token
C26_Witness ==
  /\ pc = "done"
  /\ Resp.status = 200
  /\ Resp.body.embed # "none"
  /\ suspended.pc = "embedFetch"
  /\ tokenData.access_token \in AccessTokens
  /\ suspended.tokenData.access_token \in AccessTokens
  /\ tokenData.access_token # suspended.tokenData.access_token

----------------------------------------------------------------------------
(* C27 *)

\* the positions of an invocation, in the order the handler passes them
PcOrder ==
  <<{"start"}, {"tokenFetch"}, {"tokenText", "tokenJson"}, {"embedFetch"},
    {"embedText", "embedJson"}, {"done"}>>

Stage(p) == CHOOSE i \in 1..Len(PcOrder) : p \in PcOrder[i]

\* C27: when every pending call and body read eventually completes or
\* fails, every invocation eventually returns a response; a failed call
\* or body read is answered with the error response, and every step takes
\* the handler forward, so it never waits on the upstream again.
C27_EveryInvocationReturns ==
  /\ <>(Done /\ Len(responses) = 1)
  /\ [](TransportAbort => (Done /\ Len(responses) = 1 /\ Resp.status = 500))
  /\ [][Stage(pc') > Stage(pc)]_vars

\* a fetch or a body read failed and the invocation has answered
C27_Witness ==
  /\ TransportAbort
  /\ Done
  /\ Resp.status = 500
  /\ Len(calls) = 2

====
